---- MODULE Spec2Model ----
(***************************************************************************)
(* String Analyzer API (main.go): the in-memory store of analyzed strings, *)
(* the sync.RWMutex that guards it, and the HTTP handlers that create,     *)
(* look up, delete and list records.  Every request is served by its own   *)
(* goroutine; a goroutine's position in its handler is pc[g].              *)
(* The natural-language handler and its translator                         *)
(* (ParseNaturalLanguageQuery) and the analyzer on its own are checked     *)
(* under specifications of their own, SpecNL and SpecAnalyze.              *)
(*                                                                         *)
(* Strings are TLA+ strings from a fixed universe.  Runes(s) is []rune(s)  *)
(* and generateSHA256Hash(s) is the true SHA-256 hex digest of s, both     *)
(* tabulated for the universe (digests computed with a reference SHA-256). *)
(***************************************************************************)
EXTENDS Integers, Sequences, FiniteSets, TLC

(***************************************************************************)
(* Bounds                                                                  *)
(***************************************************************************)
\* number of requests (one goroutine each) in flight after a quiescent moment
NumRequests == 2
\* largest reading of the clock (time.Now) in a run
MaxClock == 1
\* longest string, in code points, given to the analyzer on its own
MaxLen == 3

(***************************************************************************)
(* The universe of strings                                                 *)
(***************************************************************************)
\* sha256("aba"), also submitted literally as a value and used as a token
H1 == "e124adcce1fb2f88e1ea799c3d0820845ed343e6c739e54131fcb3a56e4bc1bd"
\* sha256(H1)
H2 == "88b6ebcf0eb4380123f5d18edc8ccd5da6f4259d082c8e2468a25d2e9f0aacb1"
\* sha256(H2)
H3 == "55a311c67086a66c3e9e6117f6da84bef28ab033aefd730711fe4e5b639c96b4"

LowerLetters == {"a", "b", "c", "d", "e", "f", "g", "h", "i", "j", "k", "l", "m",
                 "n", "o", "p", "q", "r", "s", "t", "u", "v", "w", "x", "y", "z"}
Letters == LowerLetters \cup {"A", "P"}
Digits  == {"0", "1", "2", "3", "4", "5", "6", "7", "8", "9"}

\* []rune(s): the code points of s, for the strings that are analyzed or parsed
Runes(s) ==
  CASE s = ""     -> <<>>
    [] s = "aba"  -> <<"a", "b", "a">>
    [] s = "a b"  -> <<"a", " ", "b">>
    [] s = "abcd" -> <<"a", "b", "c", "d">>
    [] s = "Aa"   -> <<"A", "a">>
    [] s \in LowerLetters \cup Digits \cup {" ", "'"} -> <<s>>
    [] s = "ab"   -> <<"a", "b">>
    [] s = "10"   -> <<"1", "0">>
    [] s = "-1"   -> <<"-", "1">>
    [] s = "all " ->
         <<"a", "l", "l", " ">>
    [] s = "All " ->
         <<"A", "l", "l", " ">>
    [] s = "strings" ->
         <<"s", "t", "r", "i", "n", "g", "s">>
    [] s = " strings" ->
         <<" ", "s", "t", "r", "i", "n", "g", "s">>
    [] s = "strings " ->
         <<"s", "t", "r", "i", "n", "g", "s", " ">>
    [] s = "strings with " ->
         <<"s", "t", "r", "i", "n", "g", "s", " ", "w", "i", "t", "h", " ">>
    [] s = "strings that " ->
         <<"s", "t", "r", "i", "n", "g", "s", " ", "t", "h", "a", "t", " ">>
    [] s = "single" ->
         <<"s", "i", "n", "g", "l", "e">>
    [] s = "one" ->
         <<"o", "n", "e">>
    [] s = "two" ->
         <<"t", "w", "o">>
    [] s = "three" ->
         <<"t", "h", "r", "e", "e">>
    [] s = "four" ->
         <<"f", "o", "u", "r">>
    [] s = "five" ->
         <<"f", "i", "v", "e">>
    [] s = "six" ->
         <<"s", "i", "x">>
    [] s = "seven" ->
         <<"s", "e", "v", "e", "n">>
    [] s = "eight" ->
         <<"e", "i", "g", "h", "t">>
    [] s = "nine" ->
         <<"n", "i", "n", "e">>
    [] s = "ten" ->
         <<"t", "e", "n">>
    [] s = " word" ->
         <<" ", "w", "o", "r", "d">>
    [] s = " words" ->
         <<" ", "w", "o", "r", "d", "s">>
    [] s = "some" ->
         <<"s", "o", "m", "e">>
    [] s = "of" ->
         <<"o", "f">>
    [] s = "longer than " ->
         <<"l", "o", "n", "g", "e", "r", " ", "t", "h", "a", "n", " ">>
    [] s = "shorter than " ->
         <<"s", "h", "o", "r", "t", "e", "r", " ", "t", "h", "a", "n", " ">>
    [] s = "exactly " ->
         <<"e", "x", "a", "c", "t", "l", "y", " ">>
    [] s = " characters" ->
         <<" ", "c", "h", "a", "r", "a", "c", "t", "e", "r", "s">>
    [] s = " and " ->
         <<" ", "a", "n", "d", " ">>
    [] s = "containing the letter " ->
         <<"c", "o", "n", "t", "a", "i", "n", "i", "n", "g", " ", "t", "h",
           "e", " ", "l", "e", "t", "t", "e", "r", " ">>
    [] s = "contains the letter " ->
         <<"c", "o", "n", "t", "a", "i", "n", "s", " ", "t", "h", "e", " ",
           "l", "e", "t", "t", "e", "r", " ">>
    [] s = "contains the first vowel" ->
         <<"c", "o", "n", "t", "a", "i", "n", "s", " ", "t", "h", "e", " ",
           "f", "i", "r", "s", "t", " ", "v", "o", "w", "e", "l">>
    [] s = "palindromic" ->
         <<"p", "a", "l", "i", "n", "d", "r", "o", "m", "i", "c">>
    [] s = "Palindromic" ->
         <<"P", "a", "l", "i", "n", "d", "r", "o", "m", "i", "c">>
    [] s = "palindrome" ->
         <<"p", "a", "l", "i", "n", "d", "r", "o", "m", "e">>
    [] s = "tell me a joke" ->
         <<"t", "e", "l", "l", " ", "m", "e", " ", "a", " ", "j", "o", "k",
           "e">>
    [] s = "conflicting" ->
         <<"c", "o", "n", "f", "l", "i", "c", "t", "i", "n", "g">>
    [] s = " length filters detected" ->
         <<" ", "l", "e", "n", "g", "t", "h", " ", "f", "i", "l", "t", "e",
           "r", "s", " ", "d", "e", "t", "e", "c", "t", "e", "d">>
    [] s = "query resulted in " ->
         <<"q", "u", "e", "r", "y", " ", "r", "e", "s", "u", "l", "t", "e",
           "d", " ", "i", "n", " ">>
    [] s = " length filters (min_length > max_length)" ->
         <<" ", "l", "e", "n", "g", "t", "h", " ", "f", "i", "l", "t", "e",
           "r", "s", " ", "(", "m", "i", "n", "_", "l", "e", "n", "g", "t",
           "h", " ", ">", " ", "m", "a", "x", "_", "l", "e", "n", "g", "t",
           "h", ")">>
    [] s = "unsupported word count '" ->
         <<"u", "n", "s", "u", "p", "p", "o", "r", "t", "e", "d", " ", "w",
           "o", "r", "d", " ", "c", "o", "u", "n", "t", " ", "'">>
    [] s = "unable to parse natural language query into filters" ->
         <<"u", "n", "a", "b", "l", "e", " ", "t", "o", " ", "p", "a", "r",
           "s", "e", " ", "n", "a", "t", "u", "r", "a", "l", " ", "l", "a",
           "n", "g", "u", "a", "g", "e", " ", "q", "u", "e", "r", "y", " ",
           "i", "n", "t", "o", " ", "f", "i", "l", "t", "e", "r", "s">>
    [] s = "11" ->
         <<"1", "1">>
    [] s = H1     ->
         <<"e", "1", "2", "4", "a", "d", "c", "c", "e", "1", "f", "b", "2",
           "f", "8", "8", "e", "1", "e", "a", "7", "9", "9", "c", "3", "d",
           "0", "8", "2", "0", "8", "4", "5", "e", "d", "3", "4", "3", "e",
           "6", "c", "7", "3", "9", "e", "5", "4", "1", "3", "1", "f", "c",
           "b", "3", "a", "5", "6", "e", "4", "b", "c", "1", "b", "d">>

\* generateSHA256Hash: hex(sha256(bytes of s))
generateSHA256Hash(s) ==
  CASE s = "aba"  -> H1
    [] s = H1     -> H2
    [] s = H2     -> H3
    [] s = "a b"  -> "c8687a08aa5d6ed2044328fa6a697ab8e96dc34291e8c2034ae8c38e6fcc6d65"
    [] s = "abcd" -> "88d4266fd4e6338d13b845fcf289579d209c897823b9217da3e161936f031589"
    [] s = "Aa"   -> "81acaafba961bb831ec40eb965155e3486392c60cfb8c75150beaf2caffc244a"

\* unicode.IsLetter / unicode.IsNumber on the code points of the universe
IsLetter(r) == r \in Letters
IsNumber(r) == r \in Digits
\* the whitespace class \s of countWords' regexp, and of strings.TrimSpace
IsSpace(r) == r = " "
\* strings.ToLower, one code point
ToLowerRune(r) == CASE r = "A" -> "a" [] r = "P" -> "p" [] OTHER -> r

(***************************************************************************)
(* Analyzer (main.go 69-143)                                               *)
(***************************************************************************)
calculateLength(s) == Len(Runes(s))

\* (variant: the code points are compared without strings.ToLower)
PalindromeOf_CaseSensitive(r) ==
  LET filteredRunes == SelectSeq(r, LAMBDA c : IsLetter(c) \/ IsNumber(c))
      n == Len(filteredRunes)
  IN  \A i \in 1..n : i < n + 1 - i => filteredRunes[i] = filteredRunes[n + 1 - i]

\* isPalindrome on the code points r of its argument (76-88)
PalindromeOf(r) ==
  LET lower == [i \in DOMAIN r |-> ToLowerRune(r[i])]
      filteredRunes == SelectSeq(lower, LAMBDA c : IsLetter(c) \/ IsNumber(c))
      n == Len(filteredRunes)
  IN  \A i \in 1..n : i < n + 1 - i => filteredRunes[i] = filteredRunes[n + 1 - i]

isPalindrome(s) == PalindromeOf(Runes(s))

\* countUniqueCharacters on the code points r of its argument (93-97)
UniqueOf(r) == Cardinality({r[i] : i \in DOMAIN r})

countUniqueCharacters(s) == UniqueOf(Runes(s))

\* strings.TrimSpace: the code points from the first to the last non-space one
TrimSpace(r) ==
  LET kept == {i \in DOMAIN r : ~IsSpace(r[i])}
  IN  IF kept = {} THEN <<>>
      ELSE SubSeq(r, CHOOSE i \in kept : \A j \in kept : i <= j,
                     CHOOSE i \in kept : \A j \in kept : j <= i)

\* regexp `\s+`.Split(r, -1) of a trimmed r: the pieces between the maximal runs
\* of spaces, each under the index it starts at; the empty r is one empty piece
SplitSpaces(r) ==
  IF r = <<>> THEN [i \in {1} |-> <<>>]
  ELSE LET starts == {i \in DOMAIN r : ~IsSpace(r[i]) /\ (i = 1 \/ IsSpace(r[i - 1]))}
           end(i) == CHOOSE j \in i..Len(r) :
                       /\ \A m \in i..j : ~IsSpace(r[m])
                       /\ (j = Len(r) \/ IsSpace(r[j + 1]))
       IN  [i \in starts |-> SubSeq(r, i, end(i))]

\* countWords on the code points r of its argument (102-113)
WordsOf(r) ==
  IF r = <<>> THEN 0
  ELSE LET words == SplitSpaces(TrimSpace(r))
       IN  Cardinality({i \in DOMAIN words : words[i] # <<>>})

countWords(s) == WordsOf(Runes(s))

\* (variant: the code points are counted after case folding)
FrequencyOf_Folded(r) ==
  [c \in {ToLowerRune(r[i]) : i \in DOMAIN r} |->
     Cardinality({i \in DOMAIN r : ToLowerRune(r[i]) = c})]

\* getCharacterFrequencyMap on the code points r of its argument (125-129)
FrequencyOf(r) ==
  [c \in {r[i] : i \in DOMAIN r} |-> Cardinality({i \in DOMAIN r : r[i] = c})]

getCharacterFrequencyMap(s) == FrequencyOf(Runes(s))

\* analyzeString on the code points r of its argument, the hash left out
analyzeRunes(r) ==
  [Length                |-> Len(r),
   IsPalindrome          |-> PalindromeOf(r),
   UniqueCharacters      |-> UniqueOf(r),
   WordCount             |-> WordsOf(r),
   CharacterFrequencyMap |-> FrequencyOf(r)]

analyzeString(value) ==
  [Length                |-> calculateLength(value),
   IsPalindrome          |-> isPalindrome(value),
   UniqueCharacters      |-> countUniqueCharacters(value),
   WordCount             |-> countWords(value),
   SHA256Hash            |-> generateSHA256Hash(value),
   CharacterFrequencyMap |-> getCharacterFrequencyMap(value)]

\* the AnalyzedString literal of CreateStringHandler
AnalyzedString(value, properties, createdAt) ==
  [ID         |-> properties.SHA256Hash,
   Value      |-> value,
   Properties |-> properties,
   CreatedAt  |-> createdAt]

(***************************************************************************)
(* HTTP status codes (net/http) used by the handlers                       *)
(***************************************************************************)
StatusOK         == 200
StatusCreated    == 201
StatusNoContent  == 204
StatusBadRequest == 400
StatusNotFound   == 404
StatusConflict   == 409
StatusUnprocessableEntity == 422

(***************************************************************************)
(* Request inputs                                                          *)
(***************************************************************************)
Goroutines == 1..NumRequests

\* values posted to POST /strings ("" is what a missing or empty value binds to)
CreateValues == {"", "aba", H1}
\* path parameters of GET and DELETE /strings/:string_value
Tokens == {"aba", H1}

FilterNames ==
  {"is_palindrome", "min_length", "max_length", "word_count", "contains_character"}

\* the raw query string of GET /strings; c.Query gives "" for an absent key
Query(pal, min, max, wc, ch) ==
  [is_palindrome |-> pal, min_length |-> min, max_length |-> max,
   word_count |-> wc, contains_character |-> ch]

NoQuery == Query("", "", "", "", "")

\* queries issued while other requests are in flight
Queries == {Query("", "3", "3", "", ""), Query("", "-1", "", "", "")}

\* natural-language queries issued while other requests are in flight
Texts == {<<"Palindromic", " strings">>}

\* queries issued against a quiescent store
FilterQueries ==
  {Query(pal, min, max, wc, ch) :
     pal \in {"", "true", "false", "yes"}, min \in {"", "3", "10", "-1"},
     max \in {"", "3", "5", "x"}, wc \in {"", "1", "2"}, ch \in {"", "a", "d", "ab"}}

\* values the store may hold at a quiescent moment of the server
StoredValues == {"aba", H1}
\* values held by the store that the filter queries are run against
FilterValues == {"aba", "a b", "abcd", H1}

(***************************************************************************)
(* strconv                                                                 *)
(***************************************************************************)
\* strconv.ParseBool
ParseBool(param) ==
  IF param \in {"1", "t", "T", "TRUE", "true", "True"} THEN [ok |-> TRUE, val |-> TRUE]
  ELSE IF param \in {"0", "f", "F", "FALSE", "false", "False"} THEN [ok |-> TRUE, val |-> FALSE]
  ELSE [ok |-> FALSE, val |-> FALSE]

DigitValue(r) ==
  CASE r = "0" -> 0 [] r = "1" -> 1 [] r = "2" -> 2 [] r = "3" -> 3 [] r = "4" -> 4
    [] r = "5" -> 5 [] r = "6" -> 6 [] r = "7" -> 7 [] r = "8" -> 8 [] r = "9" -> 9

RECURSIVE DecimalValue(_)
DecimalValue(r) ==
  IF r = <<>> THEN 0 ELSE 10 * DecimalValue(SubSeq(r, 1, Len(r) - 1)) + DigitValue(r[Len(r)])

\* strconv.Atoi: an optional sign, then one or more decimal digits
AtoiOf(r) ==
  LET signed == r # <<>> /\ r[1] \in {"+", "-"}
      digits == IF signed THEN Tail(r) ELSE r
  IN  IF digits = <<>> \/ \E i \in DOMAIN digits : digits[i] \notin Digits
      THEN [ok |-> FALSE, val |-> 0]
      ELSE [ok |-> TRUE,
            val |-> IF signed /\ r[1] = "-" THEN 0 - DecimalValue(digits)
                    ELSE DecimalValue(digits)]

Atoi(param) == AtoiOf(Runes(param))

(***************************************************************************)
(* State                                                                   *)
(***************************************************************************)
VARIABLES
  stringStore,        \* map[string]AnalyzedString, keyed by ID
  mu,                 \* sync.RWMutex: the goroutines holding it for reading, and
                      \* the goroutine that has called Lock (0 when none)
  now,                \* the clock read by time.Now
  pc,                 \* each goroutine's position in its handler
  req,                \* each goroutine's request: handler, path or body value, query
  newAnalyzedString,  \* CreateStringHandler's local record
  visited,            \* GetFilteredStringsHandler: keys the range loop has yielded
  filters,            \* GetFilteredStringsHandler's local map
  filteredStrings,    \* GetFilteredStringsHandler's local slice
  resp,               \* the response each goroutine wrote with c.JSON / c.Status
  parsedFilters,      \* NaturalLanguageFilterHandler's local map
  analysis            \* the analyzer applied to a string on its own: input and result

vars == <<stringStore, mu, now, pc, req, newAnalyzedString, visited, filters,
          filteredStrings, resp, parsedFilters, analysis>>

NoRecord   == [ID |-> ""]
NoResponse == [status |-> 0]
NoFilters  == <<>>
NoRequest  == [op |-> "", arg |-> "", query |-> NoQuery, text |-> <<>>]
NoAnalysis == [input |-> <<>>, done |-> FALSE]

\* the store after the values of S have been created, one request at a time
StoreOf(S) ==
  [id \in {generateSHA256Hash(v) : v \in S} |->
     LET value == CHOOSE v \in S : generateSHA256Hash(v) = id
     IN  AnalyzedString(value, analyzeString(value), 0)]

\* a quiescent moment of the server: no request in flight, the store holding S
Quiescent(S) ==
  /\ stringStore = StoreOf(S)
  /\ mu = [readers |-> {}, w |-> 0]
  /\ now = 0
  /\ pc = [g \in Goroutines |-> "idle"]
  /\ req = [g \in Goroutines |-> NoRequest]
  /\ newAnalyzedString = [g \in Goroutines |-> NoRecord]
  /\ visited = [g \in Goroutines |-> {}]
  /\ filters = [g \in Goroutines |-> NoFilters]
  /\ filteredStrings = [g \in Goroutines |-> <<>>]
  /\ resp = [g \in Goroutines |-> NoResponse]
  /\ parsedFilters = [g \in Goroutines |-> NoFilters]
  /\ analysis = NoAnalysis

Init == \E S \in SUBSET StoredValues : Quiescent(S)

InitFilter == \E S \in SUBSET FilterValues : Quiescent(S)

(***************************************************************************)
(* sync.RWMutex                                                            *)
(***************************************************************************)
\* RLock returns: no writer holds or has asked for the lock
RLock(g) == /\ mu.w = 0
            /\ mu' = [mu EXCEPT !.readers = @ \cup {g}]

\* (variant: the read lock is kept)
RUnlock_Forgotten(g) == mu' = mu

RUnlock(g) == mu' = [mu EXCEPT !.readers = @ \ {g}]

\* Lock, first half: the writer announces itself, which keeps new readers out
LockAnnounce(g) == /\ mu.w = 0
                   /\ mu' = [mu EXCEPT !.w = g]

\* (variant: Lock returns without waiting for the readers)
LockAcquired_NoDrain(g) == mu.w = g

\* Lock, second half: Lock returns once the readers have drained
LockAcquired(g) == mu.w = g /\ mu.readers = {}

Unlock(g) == mu' = [mu EXCEPT !.w = 0]

\* Requests are numbered in their order of arrival: the router starts the
\* goroutine of request g once the requests before it have been started.
Arrives(g) == pc[g] = "idle" /\ \A h \in Goroutines : h < g => pc[h] # "idle"

(***************************************************************************)
(* CreateStringHandler (main.go 146-186)                                   *)
(***************************************************************************)
\* ShouldBindJSON: binding:"required" rejects the empty value
CreateStringHandler(g, value) ==
  /\ Arrives(g)
  /\ req' = [req EXCEPT ![g] = [op |-> "create", arg |-> value, query |-> NoQuery, text |-> <<>>]]
  /\ IF value = ""
     THEN /\ pc' = [pc EXCEPT ![g] = "done"]
          /\ resp' = [resp EXCEPT ![g] = [status |-> StatusBadRequest,
                                          error |-> "Missing required field: 'value'"]]
     ELSE /\ pc' = [pc EXCEPT ![g] = "c_rlock"]
          /\ UNCHANGED resp
  /\ UNCHANGED <<stringStore, mu, now, newAnalyzedString, visited, filters, filteredStrings>>
  /\ UNCHANGED <<parsedFilters, analysis>>

CreateRLock(g) ==
  /\ pc[g] = "c_rlock"
  /\ RLock(g)
  /\ pc' = [pc EXCEPT ![g] = "c_check"]
  /\ UNCHANGED <<stringStore, now, req, newAnalyzedString, visited, filters,
                 filteredStrings, resp>>
  /\ UNCHANGED <<parsedFilters, analysis>>

\* the duplicate check (164-170), made under the read lock, which is then released
\* (variant: the check is skipped)
CreateExists_Skipped(existingHash) == FALSE

CreateExists(existingHash) == existingHash \in DOMAIN stringStore

CreateCheck(g) ==
  /\ pc[g] = "c_check"
  /\ RUnlock(g)
  /\ IF CreateExists(generateSHA256Hash(req[g].arg))
     THEN /\ pc' = [pc EXCEPT ![g] = "done"]
          /\ resp' = [resp EXCEPT ![g] = [status |-> StatusConflict,
                                          error |-> "String already exists in the system"]]
     ELSE /\ pc' = [pc EXCEPT ![g] = "c_build"]
          /\ UNCHANGED resp
  /\ UNCHANGED <<stringStore, now, req, newAnalyzedString, visited, filters, filteredStrings>>
  /\ UNCHANGED <<parsedFilters, analysis>>

\* analyzeString and time.Now().UTC() (172-179); the clock never runs backwards
CreateBuild(g) ==
  /\ pc[g] = "c_build"
  /\ \E t \in now..MaxClock :
       /\ now' = t
       /\ newAnalyzedString' =
            [newAnalyzedString EXCEPT
               ![g] = AnalyzedString(req[g].arg, analyzeString(req[g].arg), t)]
  /\ pc' = [pc EXCEPT ![g] = "c_lock"]
  /\ UNCHANGED <<stringStore, mu, req, visited, filters, filteredStrings, resp>>
  /\ UNCHANGED <<parsedFilters, analysis>>

CreateLock(g) ==
  /\ pc[g] = "c_lock"
  /\ LockAnnounce(g)
  /\ pc' = [pc EXCEPT ![g] = "c_write"]
  /\ UNCHANGED <<stringStore, now, req, newAnalyzedString, visited, filters,
                 filteredStrings, resp>>
  /\ UNCHANGED <<parsedFilters, analysis>>

\* stringStore[newAnalyzedString.ID] = newAnalyzedString (182)
\* (variant: the record is stored under its value instead of its ID)
StoreInsert_ByValue(store, rec) ==
  [k \in DOMAIN store \cup {rec.Value} |-> IF k = rec.Value THEN rec ELSE store[k]]

StoreInsert(store, rec) ==
  [k \in DOMAIN store \cup {rec.ID} |-> IF k = rec.ID THEN rec ELSE store[k]]

CreateWrite(g) ==
  /\ pc[g] = "c_write"
  /\ LockAcquired(g)
  /\ stringStore' = StoreInsert(stringStore, newAnalyzedString[g])
  /\ pc' = [pc EXCEPT ![g] = "c_unlock"]
  /\ UNCHANGED <<mu, now, req, newAnalyzedString, visited, filters, filteredStrings, resp>>
  /\ UNCHANGED <<parsedFilters, analysis>>

\* mu.Unlock() and the 201 response (183-185)
CreateUnlock(g) ==
  /\ pc[g] = "c_unlock"
  /\ Unlock(g)
  /\ resp' = [resp EXCEPT ![g] = [status |-> StatusCreated, body |-> newAnalyzedString[g]]]
  /\ newAnalyzedString' = [newAnalyzedString EXCEPT ![g] = NoRecord]
  /\ pc' = [pc EXCEPT ![g] = "done"]
  /\ UNCHANGED <<stringStore, now, req, visited, filters, filteredStrings>>
  /\ UNCHANGED <<parsedFilters, analysis>>

(***************************************************************************)
(* GetSpecificStringHandler (main.go 189-209)                              *)
(***************************************************************************)
GetSpecificStringHandler(g, stringValue) ==
  /\ Arrives(g)
  /\ req' = [req EXCEPT ![g] = [op |-> "get", arg |-> stringValue, query |-> NoQuery, text |-> <<>>]]
  /\ pc' = [pc EXCEPT ![g] = "g_rlock"]
  /\ UNCHANGED <<stringStore, mu, now, newAnalyzedString, visited, filters,
                 filteredStrings, resp>>
  /\ UNCHANGED <<parsedFilters, analysis>>

GetRLock(g) ==
  /\ pc[g] = "g_rlock"
  /\ RLock(g)
  /\ pc' = [pc EXCEPT ![g] = "g_lookup"]
  /\ UNCHANGED <<stringStore, now, req, newAnalyzedString, visited, filters,
                 filteredStrings, resp>>
  /\ UNCHANGED <<parsedFilters, analysis>>

NotFoundResponse ==
  [status |-> StatusNotFound, error |-> "String not found in the system"]

\* (variant: the hashed lookup is tried before the direct one)
GetLookup_HashFirst(store, stringValue) ==
  LET hashedValue == generateSHA256Hash(stringValue)
  IN  IF hashedValue \in DOMAIN store
      THEN [status |-> StatusOK, body |-> store[hashedValue]]
      ELSE IF stringValue \in DOMAIN store
           THEN [status |-> StatusOK, body |-> store[stringValue]]
           ELSE NotFoundResponse

\* the two lookups (196-208): by direct hash, then by the hash of the parameter
GetLookup(store, stringValue) ==
  IF stringValue \in DOMAIN store
  THEN [status |-> StatusOK, body |-> store[stringValue]]
  ELSE LET hashedValue == generateSHA256Hash(stringValue)
       IN  IF hashedValue \in DOMAIN store
           THEN [status |-> StatusOK, body |-> store[hashedValue]]
           ELSE NotFoundResponse

\* (variant: the record that is found is taken out of the map)
GetRespond_Evicting(g) ==
  /\ pc[g] = "g_lookup"
  /\ resp' = [resp EXCEPT ![g] = GetLookup(stringStore, req[g].arg)]
  /\ stringStore' =
       [k \in {j \in DOMAIN stringStore :
                 stringStore[j] # GetLookup(stringStore, req[g].arg).body} |-> stringStore[k]]
  /\ RUnlock(g)
  /\ pc' = [pc EXCEPT ![g] = "done"]
  /\ UNCHANGED <<now, req, newAnalyzedString, visited, filters, filteredStrings>>
  /\ UNCHANGED <<parsedFilters, analysis>>

\* the lookups, the response and the deferred RUnlock
GetRespond(g) ==
  /\ pc[g] = "g_lookup"
  /\ resp' = [resp EXCEPT ![g] = GetLookup(stringStore, req[g].arg)]
  /\ RUnlock(g)
  /\ pc' = [pc EXCEPT ![g] = "done"]
  /\ UNCHANGED <<stringStore, now, req, newAnalyzedString, visited, filters, filteredStrings>>
  /\ UNCHANGED <<parsedFilters, analysis>>

(***************************************************************************)
(* DeleteStringHandler (main.go 491-517)                                   *)
(***************************************************************************)
DeleteStringHandler(g, stringValue) ==
  /\ Arrives(g)
  /\ req' = [req EXCEPT ![g] = [op |-> "delete", arg |-> stringValue, query |-> NoQuery, text |-> <<>>]]
  /\ pc' = [pc EXCEPT ![g] = "d_lock"]
  /\ UNCHANGED <<stringStore, mu, now, newAnalyzedString, visited, filters,
                 filteredStrings, resp>>
  /\ UNCHANGED <<parsedFilters, analysis>>

DeleteLock(g) ==
  /\ pc[g] = "d_lock"
  /\ LockAnnounce(g)
  /\ pc' = [pc EXCEPT ![g] = "d_delete"]
  /\ UNCHANGED <<stringStore, now, req, newAnalyzedString, visited, filters,
                 filteredStrings, resp>>
  /\ UNCHANGED <<parsedFilters, analysis>>

\* (variant: the entry is left in the map)
StoreRemove_Kept(store, key) == store

\* delete(stringStore, key)
StoreRemove(store, key) == [k \in DOMAIN store \ {key} |-> store[k]]

\* (variant: the hash of the parameter is tried before the parameter)
DeleteKey_HashFirst(store, stringValue) ==
  IF generateSHA256Hash(stringValue) \in DOMAIN store
  THEN generateSHA256Hash(stringValue)
  ELSE IF stringValue \in DOMAIN store THEN stringValue
       ELSE ""

\* the key DeleteStringHandler removes (499-509), "" when it removes none
DeleteKey(store, stringValue) ==
  IF stringValue \in DOMAIN store THEN stringValue
  ELSE IF generateSHA256Hash(stringValue) \in DOMAIN store
       THEN generateSHA256Hash(stringValue)
       ELSE ""

\* the removal, the response and the deferred Unlock
DeleteRemove(g) ==
  /\ pc[g] = "d_delete"
  /\ LockAcquired(g)
  /\ LET key == DeleteKey(stringStore, req[g].arg)
     IN  IF key # ""
         THEN /\ stringStore' = StoreRemove(stringStore, key)
              /\ resp' = [resp EXCEPT ![g] = [status |-> StatusNoContent]]
         ELSE /\ UNCHANGED stringStore
              /\ resp' = [resp EXCEPT ![g] = NotFoundResponse]
  /\ Unlock(g)
  /\ pc' = [pc EXCEPT ![g] = "done"]
  /\ UNCHANGED <<now, req, newAnalyzedString, visited, filters, filteredStrings>>
  /\ UNCHANGED <<parsedFilters, analysis>>

(***************************************************************************)
(* GetFilteredStringsHandler (main.go 212-304)                             *)
(***************************************************************************)
GetFilteredStringsHandler(g, query) ==
  /\ Arrives(g)
  /\ req' = [req EXCEPT ![g] = [op |-> "list", arg |-> "", query |-> query, text |-> <<>>]]
  /\ pc' = [pc EXCEPT ![g] = "l_rlock"]
  /\ UNCHANGED <<stringStore, mu, now, newAnalyzedString, visited, filters,
                 filteredStrings, resp>>
  /\ UNCHANGED <<parsedFilters, analysis>>

ListRLock(g) ==
  /\ pc[g] = "l_rlock"
  /\ RLock(g)
  /\ pc' = [pc EXCEPT ![g] = "l_loop"]
  /\ UNCHANGED <<stringStore, now, req, newAnalyzedString, visited, filters,
                 filteredStrings, resp>>
  /\ UNCHANGED <<parsedFilters, analysis>>

\* filters[name] = val
SetFilter(f, name, val) ==
  [n \in DOMAIN f \cup {name} |-> IF n = name THEN val ELSE f[n]]

\* One pass of the loop body is carried as [err, filters, match]: err is the
\* message of the 400 response a check returned with, "" while none has.
PalindromeCheck(query, str, st) ==
  IF st.err # "" \/ query.is_palindrome = "" THEN st
  ELSE LET p == ParseBool(query.is_palindrome)
       IN  IF ~p.ok
           THEN [st EXCEPT !.err = "Invalid value for 'is_palindrome', must be boolean (true/false)"]
           ELSE [err |-> "", filters |-> SetFilter(st.filters, "is_palindrome", p.val),
                 match |-> st.match /\ str.Properties.IsPalindrome = p.val]

\* (variant: the bound is exclusive)
MinLengthTest_Exclusive(length, val) == length > val

\* a record passes min_length unless Length < val (243)
MinLengthTest(length, val) == ~(length < val)

MinLengthCheck(query, str, st) ==
  IF st.err # "" \/ query.min_length = "" THEN st
  ELSE LET p == Atoi(query.min_length)
       IN  IF ~p.ok \/ p.val < 0
           THEN [st EXCEPT !.err = "Invalid value for 'min_length', must be a non-negative integer"]
           ELSE [err |-> "", filters |-> SetFilter(st.filters, "min_length", p.val),
                 match |-> st.match /\ MinLengthTest(str.Properties.Length, p.val)]

MaxLengthCheck(query, str, st) ==
  IF st.err # "" \/ query.max_length = "" THEN st
  ELSE LET p == Atoi(query.max_length)
       IN  IF ~p.ok \/ p.val < 0
           THEN [st EXCEPT !.err = "Invalid value for 'max_length', must be a non-negative integer"]
           ELSE [err |-> "", filters |-> SetFilter(st.filters, "max_length", p.val),
                 match |-> st.match /\ ~(str.Properties.Length > p.val)]

WordCountCheck(query, str, st) ==
  IF st.err # "" \/ query.word_count = "" THEN st
  ELSE LET p == Atoi(query.word_count)
       IN  IF ~p.ok \/ p.val < 0
           THEN [st EXCEPT !.err = "Invalid value for 'word_count', must be a non-negative integer"]
           ELSE [err |-> "", filters |-> SetFilter(st.filters, "word_count", p.val),
                 match |-> st.match /\ str.Properties.WordCount = p.val]

ContainsCharacterCheck(query, str, st) ==
  IF st.err # "" \/ query.contains_character = "" THEN st
  ELSE IF Len(Runes(query.contains_character)) # 1
       THEN [st EXCEPT !.err = "Invalid value for 'contains_character', must be a single character"]
       ELSE LET charToFind == Runes(query.contains_character)[1]
                found == \E c \in DOMAIN str.Properties.CharacterFrequencyMap : c = charToFind
            IN  [err |-> "",
                 filters |-> SetFilter(st.filters, "contains_character", query.contains_character),
                 match |-> st.match /\ found]

\* the body of the range loop for one record (220-296)
\* (the result of each check is bound as a value before the next check reads it)
LoopBody(query, str, f) ==
  CHOOSE st5 \in
    {ContainsCharacterCheck(query, str, st4) : st4 \in
      {WordCountCheck(query, str, st3) : st3 \in
        {MaxLengthCheck(query, str, st2) : st2 \in
          {MinLengthCheck(query, str, st1) : st1 \in
            {PalindromeCheck(query, str, [err |-> "", filters |-> f, match |-> TRUE])}}}}} :
    TRUE

\* one iteration of `for _, str := range stringStore`; a failed check returns
\* from the handler, which runs the deferred RUnlock
ListIterate(g) ==
  /\ pc[g] = "l_loop"
  /\ \E k \in DOMAIN stringStore \ visited[g] :
       LET st == LoopBody(req[g].query, stringStore[k], filters[g])
       IN  IF st.err # ""
           THEN /\ resp' = [resp EXCEPT ![g] = [status |-> StatusBadRequest, error |-> st.err]]
                /\ RUnlock(g)
                /\ pc' = [pc EXCEPT ![g] = "done"]
                /\ visited' = [visited EXCEPT ![g] = {}]
                /\ filters' = [filters EXCEPT ![g] = NoFilters]
                /\ filteredStrings' = [filteredStrings EXCEPT ![g] = <<>>]
           ELSE /\ visited' = [visited EXCEPT ![g] = @ \cup {k}]
                /\ filters' = [filters EXCEPT ![g] = st.filters]
                /\ filteredStrings' =
                     [filteredStrings EXCEPT
                        ![g] = IF st.match THEN Append(@, stringStore[k]) ELSE @]
                /\ UNCHANGED <<resp, mu, pc>>
  /\ UNCHANGED <<stringStore, now, req, newAnalyzedString>>
  /\ UNCHANGED <<parsedFilters, analysis>>

\* the range loop is exhausted: the 200 response (299-303) and the deferred RUnlock
ListRespond(g) ==
  /\ pc[g] = "l_loop"
  /\ DOMAIN stringStore \ visited[g] = {}
  /\ resp' = [resp EXCEPT ![g] = [status |-> StatusOK,
                                  data |-> filteredStrings[g],
                                  count |-> Len(filteredStrings[g]),
                                  filters_applied |-> filters[g]]]
  /\ RUnlock(g)
  /\ pc' = [pc EXCEPT ![g] = "done"]
  /\ visited' = [visited EXCEPT ![g] = {}]
  /\ filters' = [filters EXCEPT ![g] = NoFilters]
  /\ filteredStrings' = [filteredStrings EXCEPT ![g] = <<>>]
  /\ UNCHANGED <<stringStore, now, req, newAnalyzedString>>
  /\ UNCHANGED <<parsedFilters, analysis>>

(***************************************************************************)
(* ParseNaturalLanguageQuery (main.go 307-409)                             *)
(***************************************************************************)
\* A query text is carried as the sequence of its pieces; Text is the string
\* they spell, as code points.
RECURSIVE Text(_)
Text(pieces) ==
  IF pieces = <<>> THEN <<>> ELSE Runes(Head(pieces)) \o Text(Tail(pieces))

\* strings.ToLower
ToLower(r) == [i \in DOMAIN r |-> ToLowerRune(r[i])]

\* p occurs in r at index i
HasPrefixAt(r, i, p) == i + Len(p) - 1 <= Len(r) /\ SubSeq(r, i, i + Len(p) - 1) = p

\* strings.Contains
Contains(r, p) == \E i \in 1..(Len(r) + 1) : HasPrefixAt(r, i, p)

Least(S) == CHOOSE i \in S : \A j \in S : i <= j

\* what `\d+` takes at index i: the longest run of digits starting there
DigitRun(r, i) ==
  LET ends == {j \in i..Len(r) : \A m \in i..j : r[m] \in Digits}
  IN  IF ends = {} THEN <<>>
      ELSE SubSeq(r, i, CHOOSE j \in ends : \A m \in ends : m <= j)

NoMatch == [found |-> FALSE]

\* the alternatives of reWordCount, in the order of the pattern
NumberWords ==
  <<"single", "one", "two", "three", "four", "five", "six", "seven", "eight",
    "nine", "ten">>

\* reWordCount.FindStringSubmatch: the leftmost match of
\* `(single|one|...|ten) word`, its group the first alternative matching there
reWordCount(r) ==
  LET matchesAt(i, k) == HasPrefixAt(r, i, Runes(NumberWords[k]) \o Runes(" word"))
      at == {i \in DOMAIN r : \E k \in DOMAIN NumberWords : matchesAt(i, k)}
  IN  IF at = {} THEN NoMatch
      ELSE [found |-> TRUE,
            group |-> NumberWords[Least({k \in DOMAIN NumberWords : matchesAt(Least(at), k)})]]

\* reWordCountNum.FindStringSubmatch: the leftmost match of `(\d+) words?`
reWordCountNum(r) ==
  LET matchesAt(i) ==
        /\ DigitRun(r, i) # <<>>
        /\ HasPrefixAt(r, i + Len(DigitRun(r, i)), Runes(" word"))
      at == {i \in DOMAIN r : matchesAt(i)}
  IN  IF at = {} THEN NoMatch
      ELSE [found |-> TRUE, group |-> DigitRun(r, Least(at))]

\* FindStringSubmatch of a literal followed by `(\d+)`
reLiteralNumber(r, literal) ==
  LET at == {i \in DOMAIN r : /\ HasPrefixAt(r, i, literal)
                              /\ DigitRun(r, i + Len(literal)) # <<>>}
  IN  IF at = {} THEN NoMatch
      ELSE [found |-> TRUE, group |-> DigitRun(r, Least(at) + Len(literal))]

reLongerThan(r)    == reLiteralNumber(r, Runes("longer than "))
reShorterThan(r)   == reLiteralNumber(r, Runes("shorter than "))
reExactlyLength(r) == reLiteralNumber(r, Runes("exactly "))

\* reContainsChar.FindStringSubmatch: `contains the letter ([a-z])`
reContainsChar(r) ==
  LET literal == Runes("contains the letter ")
      at == {i \in DOMAIN r : /\ HasPrefixAt(r, i, literal)
                              /\ i + Len(literal) <= Len(r)
                              /\ r[i + Len(literal)] \in LowerLetters}
  IN  IF at = {} THEN NoMatch
      ELSE [found |-> TRUE, group |-> r[Least(at) + Len(literal)]]

\* The errors of fmt.Errorf, as the pieces of their messages; NoError is nil.
NoError == <<>>
ErrUnsupportedWordCount(word) == <<"unsupported word count '", word, "'">>
ErrConflictingLength == <<"conflicting", " length filters detected">>
ErrMinOverMax ==
  <<"query resulted in ", "conflicting", " length filters (min_length > max_length)">>
ErrUnparseable == <<"unable to parse natural language query into filters">>

\* The function's progress is carried as [err, filters]: err is the error a
\* rule returned with, NoError while none has.
\* Palindrome (312-314)
PalindromeRule(lowerQuery, st) ==
  IF Contains(lowerQuery, Runes("palindrome")) \/ Contains(lowerQuery, Runes("palindromic"))
  THEN [st EXCEPT !.filters = SetFilter(@, "is_palindrome", TRUE)]
  ELSE st

\* Word count (317-342)
WordCountRule(lowerQuery, st) ==
  IF st.err # NoError THEN st
  ELSE LET matches == reWordCount(lowerQuery)
       IN  IF matches.found
           THEN CASE matches.group \in {"single", "one"} ->
                       [st EXCEPT !.filters = SetFilter(@, "word_count", 1)]
                  [] matches.group = "two" ->
                       [st EXCEPT !.filters = SetFilter(@, "word_count", 2)]
                  [] matches.group = "three" ->
                       [st EXCEPT !.filters = SetFilter(@, "word_count", 3)]
                  [] matches.group = "four" ->
                       [st EXCEPT !.filters = SetFilter(@, "word_count", 4)]
                  [] matches.group = "five" ->
                       [st EXCEPT !.filters = SetFilter(@, "word_count", 5)]
                  [] OTHER ->
                       [st EXCEPT !.err = ErrUnsupportedWordCount(matches.group)]
           ELSE LET numMatches == reWordCountNum(lowerQuery)
                IN  IF numMatches.found /\ AtoiOf(numMatches.group).ok
                    THEN [st EXCEPT !.filters =
                            SetFilter(@, "word_count", AtoiOf(numMatches.group).val)]
                    ELSE st

\* (variant: "longer than X" read as min_length = X)
LongerThanBound_Inclusive(num) == num

\* "longer than X" means min_length = X + 1 (353)
LongerThanBound(num) == num + 1

\* "longer than" (345-355)
LongerThanRule(lowerQuery, st) ==
  IF st.err # NoError THEN st
  ELSE LET matches == reLongerThan(lowerQuery)
       IN  IF matches.found /\ AtoiOf(matches.group).ok
           THEN LET num == AtoiOf(matches.group).val
                IN  IF "min_length" \in DOMAIN st.filters
                       /\ st.filters["min_length"] > LongerThanBound(num)
                    THEN [st EXCEPT !.err = ErrConflictingLength]
                    ELSE [st EXCEPT !.filters = SetFilter(@, "min_length", LongerThanBound(num))]
           ELSE st

\* "shorter than X" means max_length = X - 1 (365)
ShorterThanBound(num) == num - 1

\* "shorter than" (357-367)
ShorterThanRule(lowerQuery, st) ==
  IF st.err # NoError THEN st
  ELSE LET matches == reShorterThan(lowerQuery)
       IN  IF matches.found /\ AtoiOf(matches.group).ok
           THEN LET num == AtoiOf(matches.group).val
                IN  IF "max_length" \in DOMAIN st.filters
                       /\ st.filters["max_length"] < ShorterThanBound(num)
                    THEN [st EXCEPT !.err = ErrConflictingLength]
                    ELSE [st EXCEPT !.filters = SetFilter(@, "max_length", ShorterThanBound(num))]
           ELSE st

\* "exactly" (369-383)
ExactlyRule(lowerQuery, st) ==
  IF st.err # NoError THEN st
  ELSE LET matches == reExactlyLength(lowerQuery)
       IN  IF matches.found /\ AtoiOf(matches.group).ok
           THEN LET num == AtoiOf(matches.group).val
                IN  IF "min_length" \in DOMAIN st.filters /\ st.filters["min_length"] > num
                    THEN [st EXCEPT !.err = ErrConflictingLength]
                    ELSE IF "max_length" \in DOMAIN st.filters /\ st.filters["max_length"] < num
                    THEN [st EXCEPT !.err = ErrConflictingLength]
                    ELSE [st EXCEPT !.filters =
                            SetFilter(SetFilter(@, "min_length", num), "max_length", num)]
           ELSE st

\* Contains character (385-393)
ContainsRule(lowerQuery, st) ==
  IF st.err # NoError THEN st
  ELSE LET matches == reContainsChar(lowerQuery)
       IN  IF matches.found
           THEN [st EXCEPT !.filters = SetFilter(@, "contains_character", matches.group)]
           ELSE IF Contains(lowerQuery, Runes("contains the first vowel"))
           THEN [st EXCEPT !.filters = SetFilter(@, "contains_character", "a")]
           ELSE st

\* (variant: the overall check is left out)
OverallCheck_Skipped(st) == st

\* the overall min_length > max_length check (395-402)
OverallCheck(st) ==
  IF st.err # NoError THEN st
  ELSE IF /\ "min_length" \in DOMAIN st.filters
          /\ "max_length" \in DOMAIN st.filters
          /\ st.filters["min_length"] > st.filters["max_length"]
       THEN [st EXCEPT !.err = ErrMinOverMax]
       ELSE st

\* (variant: an empty map is returned as a success)
EmptyCheck_Skipped(st) == st

\* len(parsedFilters) == 0 (404-406)
EmptyCheck(st) ==
  IF st.err # NoError THEN st
  ELSE IF DOMAIN st.filters = {} THEN [st EXCEPT !.err = ErrUnparseable]
  ELSE st

\* the rules up to and including the word count, the length rules and the
\* contains rule, in the order of the function
AfterWordCount(query) ==
  WordCountRule(ToLower(query),
    PalindromeRule(ToLower(query), [err |-> NoError, filters |-> NoFilters]))

AfterLongerThan(query) == LongerThanRule(ToLower(query), AfterWordCount(query))

AfterShorterThan(query) == ShorterThanRule(ToLower(query), AfterLongerThan(query))

AfterExactly(query) == ExactlyRule(ToLower(query), AfterShorterThan(query))

AfterContains(query) == ContainsRule(ToLower(query), AfterExactly(query))

\* the function's results: the map (nil with an error) and the error
ParseNaturalLanguageQuery(query) ==
  LET st == EmptyCheck(OverallCheck(AfterContains(query)))
  IN  IF st.err # NoError THEN [filters |-> NoFilters, err |-> st.err] ELSE st

(***************************************************************************)
(* NaturalLanguageFilterHandler (main.go 412-488)                          *)
(***************************************************************************)
\* the handler up to the lock: the query parameter, the translation and the
\* responses to its errors (413-429)
NaturalLanguageFilterHandler(g, text) ==
  /\ Arrives(g)
  /\ req' = [req EXCEPT ![g] = [op |-> "nl", arg |-> "", query |-> NoQuery, text |-> text]]
  /\ LET query == Text(text)
         parsed == ParseNaturalLanguageQuery(query)
     IN  IF query = <<>>
         THEN /\ resp' = [resp EXCEPT ![g] = [status |-> StatusBadRequest,
                                              error |-> "Missing 'query' parameter"]]
              /\ pc' = [pc EXCEPT ![g] = "done"]
              /\ UNCHANGED parsedFilters
         ELSE IF parsed.err # NoError
         THEN /\ resp' = [resp EXCEPT ![g] =
                   IF Contains(Text(parsed.err), Runes("conflicting"))
                   THEN [status |-> StatusUnprocessableEntity,
                         error |-> "Conflicting filters detected in query"]
                   ELSE [status |-> StatusBadRequest, error |-> parsed.err]]
              /\ pc' = [pc EXCEPT ![g] = "done"]
              /\ UNCHANGED parsedFilters
         ELSE /\ parsedFilters' = [parsedFilters EXCEPT ![g] = parsed.filters]
              /\ pc' = [pc EXCEPT ![g] = "n_rlock"]
              /\ UNCHANGED resp
  /\ UNCHANGED <<stringStore, mu, now, newAnalyzedString, visited, filters,
                 filteredStrings, analysis>>

NLRLock(g) ==
  /\ pc[g] = "n_rlock"
  /\ RLock(g)
  /\ pc' = [pc EXCEPT ![g] = "n_loop"]
  /\ UNCHANGED <<stringStore, now, req, newAnalyzedString, visited, filters,
                 filteredStrings, resp, parsedFilters, analysis>>

\* the inner loop over parsedFilters for one record (437-474)
NLMatch(f, str) ==
  /\ "is_palindrome" \in DOMAIN f => ~(str.Properties.IsPalindrome # f["is_palindrome"])
  /\ "min_length" \in DOMAIN f => ~(str.Properties.Length < f["min_length"])
  /\ "max_length" \in DOMAIN f => ~(str.Properties.Length > f["max_length"])
  /\ "word_count" \in DOMAIN f => ~(str.Properties.WordCount # f["word_count"])
  /\ "contains_character" \in DOMAIN f =>
       LET charToFind == Runes(f["contains_character"])[1]
       IN  \E c \in DOMAIN str.Properties.CharacterFrequencyMap : c = charToFind

\* one iteration of `for _, str := range stringStore` (433-478)
NLIterate(g) ==
  /\ pc[g] = "n_loop"
  /\ \E k \in DOMAIN stringStore \ visited[g] :
       /\ visited' = [visited EXCEPT ![g] = @ \cup {k}]
       /\ filteredStrings' =
            [filteredStrings EXCEPT
               ![g] = IF NLMatch(parsedFilters[g], stringStore[k])
                      THEN Append(@, stringStore[k]) ELSE @]
  /\ UNCHANGED <<stringStore, mu, now, pc, req, newAnalyzedString, filters, resp,
                 parsedFilters, analysis>>

\* the range loop is exhausted: the 200 response (480-487) and the deferred RUnlock
NLRespond(g) ==
  /\ pc[g] = "n_loop"
  /\ DOMAIN stringStore \ visited[g] = {}
  /\ resp' = [resp EXCEPT ![g] =
                [status |-> StatusOK,
                 data |-> filteredStrings[g],
                 count |-> Len(filteredStrings[g]),
                 interpreted_query |-> [original |-> req[g].text,
                                        parsed_filters |-> parsedFilters[g]]]]
  /\ RUnlock(g)
  /\ pc' = [pc EXCEPT ![g] = "done"]
  /\ visited' = [visited EXCEPT ![g] = {}]
  /\ filteredStrings' = [filteredStrings EXCEPT ![g] = <<>>]
  /\ parsedFilters' = [parsedFilters EXCEPT ![g] = NoFilters]
  /\ UNCHANGED <<stringStore, now, req, newAnalyzedString, filters, analysis>>

(***************************************************************************)
(* The server: every request runs its handler in a goroutine of its own    *)
(***************************************************************************)
Next ==
  \E g \in Goroutines :
    \/ \E value \in CreateValues : CreateStringHandler(g, value)
    \/ CreateRLock(g)
    \/ CreateCheck(g)
    \/ CreateBuild(g)
    \/ CreateLock(g)
    \/ CreateWrite(g)
    \/ CreateUnlock(g)
    \/ \E t \in Tokens : GetSpecificStringHandler(g, t)
    \/ GetRLock(g)
    \/ GetRespond(g)
    \/ \E t \in Tokens : DeleteStringHandler(g, t)
    \/ DeleteLock(g)
    \/ DeleteRemove(g)
    \/ \E query \in Queries : GetFilteredStringsHandler(g, query)
    \/ ListRLock(g)
    \/ ListIterate(g)
    \/ ListRespond(g)
    \/ \E text \in Texts : NaturalLanguageFilterHandler(g, text)
    \/ NLRLock(g)
    \/ NLIterate(g)
    \/ NLRespond(g)

Spec == Init /\ [][Next]_vars

\* The steps of goroutine g after its request has arrived.  The Go scheduler
\* runs every goroutine that can run: unless it is blocked in RLock or Lock,
\* a goroutine inside its handler takes its next step.  Requests themselves
\* need not arrive.
HandlerStep(g) ==
  \/ CreateRLock(g) \/ CreateCheck(g) \/ CreateBuild(g) \/ CreateLock(g)
  \/ CreateWrite(g) \/ CreateUnlock(g)
  \/ GetRLock(g) \/ GetRespond(g)
  \/ DeleteLock(g) \/ DeleteRemove(g)
  \/ ListRLock(g) \/ ListIterate(g) \/ ListRespond(g)
  \/ NLRLock(g) \/ NLIterate(g) \/ NLRespond(g)

\* the requests of the runs whose termination is checked: a create of "aba"
\* (created, or a duplicate) or of an empty value, a get and a delete of "aba"
\* (found or not), the two lists of Queries and the list of Texts
LiveValues == {"", "aba"}
LiveTokens == {"aba"}

NextLive ==
  \E g \in Goroutines :
    \/ \E value \in LiveValues : CreateStringHandler(g, value)
    \/ \E t \in LiveTokens : GetSpecificStringHandler(g, t)
    \/ \E t \in LiveTokens : DeleteStringHandler(g, t)
    \/ \E query \in Queries : GetFilteredStringsHandler(g, query)
    \/ \E text \in Texts : NaturalLanguageFilterHandler(g, text)
    \/ HandlerStep(g)

\* goroutine g is inside its handler and not blocked: RLock returns when no
\* writer holds or has asked for the lock, Lock returns when it is this
\* goroutine's turn and the readers have drained, every other step can run
Ready(g) ==
  \/ pc[g] \in {"c_rlock", "g_rlock", "l_rlock", "n_rlock", "c_lock", "d_lock"} /\ mu.w = 0
  \/ pc[g] \in {"c_write", "d_delete"} /\ LockAcquired(g)
  \/ pc[g] \in {"c_check", "c_build", "c_unlock", "g_lookup", "l_loop", "n_loop"}

\* weak fairness of HandlerStep(g), WF_vars(HandlerStep(g)), with its
\* ENABLED <<HandlerStep(g)>>_vars written out as Ready(g)
Fair(g) == []<>(~Ready(g)) \/ []<><<HandlerStep(g)>>_vars

SpecLive == Init /\ [][NextLive]_vars /\ \A g \in Goroutines : Fair(g)

\* one list request at a time against a quiescent store
NextFilter ==
  \/ \E query \in FilterQueries : GetFilteredStringsHandler(1, query)
  \/ ListRLock(1)
  \/ ListIterate(1)
  \/ ListRespond(1)

SpecFilter == InitFilter /\ [][NextFilter]_vars

\* ---------------------------------------------------------------------------
\* One natural-language request at a time against a quiescent store
\* ---------------------------------------------------------------------------
\* "all <number word> word strings" and its neighbours
WordQueries ==
  {<<"all ", NumberWords[k], " word", " strings">> : k \in DOMAIN NumberWords}
    \cup {<<"All ", "single", " word", " ", "palindromic", " strings">>,
          <<"some", "one", " word">>,
          <<"of", "ten", " word">>,
          <<"strings with ", "2", " words">>,
          <<"six", " word", " strings", " ", "longer than ", "3">>,
          <<"six", " word", " strings", " ", "longer than ", "10", " and ",
            "shorter than ", "5">>}

\* "strings [longer than l] [shorter than s] [exactly e] characters"
LengthQuery(l, s, e) ==
  <<"strings">>
    \o (IF l = "" THEN <<>> ELSE <<" ", "longer than ", l>>)
    \o (IF s = "" THEN <<>> ELSE <<" ", "shorter than ", s>>)
    \o (IF e = "" THEN <<>> ELSE <<" ", "exactly ", e>>)
    \o <<" characters">>

LengthQueries ==
  {LengthQuery(l, s, e) : l \in {"", "2", "3", "10"}, s \in {"", "0", "4", "5"},
                          e \in {"", "3", "5"}}

LetterQueries ==
  {<<"strings ", "containing the letter ", x>> : x \in LowerLetters}
    \cup {<<"strings that ", "contains the letter ", x>> : x \in LowerLetters}
    \cup {<<"strings that ", "contains the first vowel">>}

NLQueries ==
  WordQueries \cup LengthQueries \cup LetterQueries
    \cup {<<>>, <<"tell me a joke">>, <<"Palindromic", " strings">>}

NextNL ==
  \/ \E text \in NLQueries : NaturalLanguageFilterHandler(1, text)
  \/ NLRLock(1)
  \/ NLIterate(1)
  \/ NLRespond(1)

SpecNL == InitFilter /\ [][NextNL]_vars

\* ---------------------------------------------------------------------------
\* One reading request at a time (get, list, natural-language list) against a
\* quiescent store
\* ---------------------------------------------------------------------------
\* path parameters of GET /strings/:string_value: a stored value, an id, the
\* value stored under the hash of that id, a value never stored
ReadTokens == {"aba", H1, "abcd", "Aa"}

NextRead ==
  \/ \E t \in ReadTokens : GetSpecificStringHandler(1, t)
  \/ GetRLock(1)
  \/ GetRespond(1)
  \/ \E query \in FilterQueries : GetFilteredStringsHandler(1, query)
  \/ ListRLock(1)
  \/ ListIterate(1)
  \/ ListRespond(1)
  \/ \E text \in NLQueries : NaturalLanguageFilterHandler(1, text)
  \/ NLRLock(1)
  \/ NLIterate(1)
  \/ NLRespond(1)

SpecRead == InitFilter /\ [][NextRead]_vars

\* ---------------------------------------------------------------------------
\* A natural-language list and then the explicit list called with the filters
\* the first one was answered with, against a quiescent store
\* ---------------------------------------------------------------------------
\* the query-string text of a parsed int, the one strconv.Atoi reads back
DecimalTexts == <<"0", "1", "2", "3", "4", "5", "6", "7", "8", "9", "10", "11">>

Itoa(n) == IF n = -1 THEN "-1" ELSE DecimalTexts[n + 1]

\* the query-string text of a parsed bool, the one strconv.ParseBool reads back
FormatBool(b) == IF b THEN "true" ELSE "false"

\* GET /strings?is_palindrome=..&min_length=..: one parameter for each key of
\* the parsed filters f, none for the others
QueryOf(f) ==
  Query(IF "is_palindrome" \in DOMAIN f THEN FormatBool(f["is_palindrome"]) ELSE "",
        IF "min_length" \in DOMAIN f THEN Itoa(f["min_length"]) ELSE "",
        IF "max_length" \in DOMAIN f THEN Itoa(f["max_length"]) ELSE "",
        IF "word_count" \in DOMAIN f THEN Itoa(f["word_count"]) ELSE "",
        IF "contains_character" \in DOMAIN f THEN f["contains_character"] ELSE "")

\* request g is the explicit list of the filters that request h, a
\* natural-language list answered 200, reported as parsed_filters
ExplicitListOf(h, g) ==
  /\ req[h].op = "nl" /\ pc[h] = "done" /\ resp[h].status = StatusOK
  /\ GetFilteredStringsHandler(g, QueryOf(resp[h].interpreted_query.parsed_filters))

NextAgree ==
  \/ \E text \in NLQueries : NaturalLanguageFilterHandler(1, text)
  \/ NLRLock(1)
  \/ NLIterate(1)
  \/ NLRespond(1)
  \/ ExplicitListOf(1, 2)
  \/ ListRLock(2)
  \/ ListIterate(2)
  \/ ListRespond(2)

SpecAgree == InitFilter /\ [][NextAgree]_vars

\* ---------------------------------------------------------------------------
\* The analyzer on its own: analyzeString applied to every string of at most
\* MaxLen code points over a small alphabet (both cases of a letter, a second
\* letter, a digit, a space and a punctuation mark)
\* ---------------------------------------------------------------------------
AnalyzeAlphabet == {"a", "A", "b", "1", " ", ","}

AnalyzeInputs == UNION {[1..n -> AnalyzeAlphabet] : n \in 0..MaxLen}

InitAnalyze == Quiescent({})

Analyze(r) ==
  /\ analysis' = [input |-> r, done |-> TRUE, result |-> analyzeRunes(r)]
  /\ UNCHANGED <<stringStore, mu, now, pc, req, newAnalyzedString, visited,
                 filters, filteredStrings, resp, parsedFilters>>

NextAnalyze == \E r \in AnalyzeInputs : Analyze(r)

SpecAnalyze == InitAnalyze /\ [][NextAnalyze]_vars

(***************************************************************************)
(* Properties of the store                                                 *)
(***************************************************************************)
Created(g) ==
  req[g].op = "create" /\ pc[g] = "done" /\ resp[g].status = StatusCreated

\* C1: when two create calls for the same value run concurrently on a store
\* that does not contain the value, exactly one of them succeeds and the other
\* fails with DuplicateContent (409).  With no other request arrived, one of
\* the two succeeding shows that the store did not contain the value.
C1_ExactlyOneWinner ==
  \A g, h \in Goroutines :
    ( /\ g # h
      /\ req[g].op = "create" /\ req[h].op = "create" /\ req[g].arg = req[h].arg
      /\ pc[g] = "done" /\ pc[h] = "done"
      /\ \A o \in Goroutines \ {g, h} : pc[o] = "idle"
      /\ StatusCreated \in {resp[g].status, resp[h].status} )
    => {resp[g].status, resp[h].status} = {StatusCreated, StatusConflict}

\* C2: records are immutable: a record present under an id before and after a
\* step is the same record (value, properties, createdAt); no step overwrites
\* an existing record.
C2_RecordsImmutable ==
  [][\A k \in DOMAIN stringStore \cap DOMAIN stringStore' :
       stringStore'[k] = stringStore[k]]_vars

\* C3: a create call for a value whose hash is already a key of the store, with
\* no other request running, is answered DuplicateContent (409) without passing
\* the duplicate check, and no step of it changes the store.
C3_DuplicateRejected ==
  [][\A g \in Goroutines :
       ( /\ req[g].op = "create" /\ pc[g] \in {"c_rlock", "c_check"}
         /\ generateSHA256Hash(req[g].arg) \in DOMAIN stringStore
         /\ \A h \in Goroutines \ {g} : pc[h] \in {"idle", "done"} )
       => /\ stringStore' = stringStore
          /\ pc'[g] \in {"c_rlock", "c_check", "done"}
          /\ pc'[g] = "done" => resp'[g].status = StatusConflict]_vars

\* a duplicate create has been rejected while no other request was running
C3_Witness ==
  \E g \in Goroutines :
    /\ req[g].op = "create" /\ pc[g] = "done" /\ resp[g].status = StatusConflict
    /\ generateSHA256Hash(req[g].arg) \in DOMAIN stringStore
    /\ \A h \in Goroutines \ {g} : pc[h] = "idle"

\* C4: every entry of the store maps a key k to a record whose ID is k, whose ID
\* is the hash of its Value and whose Properties.SHA256Hash is its ID; no two
\* entries hold the same value.
C4_StoreKeyInvariant ==
  /\ \A k \in DOMAIN stringStore :
       /\ stringStore[k].ID = k
       /\ stringStore[k].ID = generateSHA256Hash(stringStore[k].Value)
       /\ stringStore[k].Properties.SHA256Hash = stringStore[k].ID
  /\ \A k1, k2 \in DOMAIN stringStore :
       stringStore[k1].Value = stringStore[k2].Value => k1 = k2

\* a create has inserted a second record and a delete has removed one
C4_Witness ==
  \E g, h \in Goroutines :
    /\ Created(g)
    /\ req[h].op = "delete" /\ pc[h] = "done" /\ resp[h].status = StatusNoContent
    /\ Cardinality(DOMAIN stringStore) = 2

\* C5: after a create of v has returned record r, and with no delete request,
\* a get addressed by r.ID returns r, and so does a get addressed by v.  (The
\* second part is stated for values v that are not themselves a key of the
\* store, where the direct lookup of v cannot answer for another record.)
C5_RoundTrip ==
  \A g \in Goroutines :
    (Created(g) /\ \A h \in Goroutines : req[h].op # "delete")
    => /\ GetLookup(stringStore, resp[g].body.ID) =
            [status |-> StatusOK, body |-> resp[g].body]
       /\ req[g].arg \notin DOMAIN stringStore =>
            GetLookup(stringStore, req[g].arg) =
              [status |-> StatusOK, body |-> resp[g].body]

Deletes(g) ==
  pc[g] = "d_delete" /\ pc'[g] = "done" /\ resp'[g].status = StatusNoContent

\* C6 as stated: once a delete addressed by t has succeeded, t is not a key of
\* the store, the hash of t is not a key of the store (so get misses under both
\* readings of t), and a second delete addressed by t removes nothing.
C6_DeleteFinal ==
  [][\A g \in Goroutines :
       Deletes(g) =>
         /\ req[g].arg \notin DOMAIN stringStore'
         /\ generateSHA256Hash(req[g].arg) \notin DOMAIN stringStore'
         /\ GetLookup(stringStore', req[g].arg) = NotFoundResponse
         /\ DeleteKey(stringStore', req[g].arg) = ""]_vars

\* C6 amended: once a delete addressed by t has succeeded, t is not a key of the
\* store; and unless t and the hash of t were both keys when the delete ran,
\* the hash of t is not a key either, get by t answers NotFound and a second
\* delete by t removes nothing.
C6_DeleteFinalUnlessBothKeys ==
  [][\A g \in Goroutines :
       Deletes(g) =>
         /\ req[g].arg \notin DOMAIN stringStore'
         /\ ~ ( /\ req[g].arg \in DOMAIN stringStore
                /\ generateSHA256Hash(req[g].arg) \in DOMAIN stringStore )
            => /\ generateSHA256Hash(req[g].arg) \notin DOMAIN stringStore'
               /\ GetLookup(stringStore', req[g].arg) = NotFoundResponse
               /\ DeleteKey(stringStore', req[g].arg) = ""]_vars

\* a delete by value has succeeded and the token now matches no record
C6_Witness ==
  \E g \in Goroutines :
    /\ req[g].op = "delete" /\ pc[g] = "done" /\ resp[g].status = StatusNoContent
    /\ req[g].arg = "aba"
    /\ GetLookup(stringStore, req[g].arg) = NotFoundResponse
    /\ stringStore # <<>>

\* C7: get answers with the record stored under t when t is a key; otherwise
\* with the record stored under hash(t) when that is a key; otherwise NotFound.
C7_LookupPriority ==
  [][\A g \in Goroutines :
       (pc[g] = "g_lookup" /\ pc'[g] = "done") =>
         LET t == req[g].arg
         IN  IF t \in DOMAIN stringStore
             THEN resp'[g] = [status |-> StatusOK, body |-> stringStore[t]]
             ELSE IF generateSHA256Hash(t) \in DOMAIN stringStore
                  THEN resp'[g] = [status |-> StatusOK,
                                   body |-> stringStore[generateSHA256Hash(t)]]
                  ELSE resp'[g].status = StatusNotFound]_vars

\* a get by a token that is the ID of one record and the value of another has
\* answered with the record stored under the token
C7_Witness ==
  \E g \in Goroutines :
    LET t == req[g].arg
    IN  /\ req[g].op = "get" /\ pc[g] = "done" /\ resp[g].status = StatusOK
        /\ t \in DOMAIN stringStore
        /\ generateSHA256Hash(t) \in DOMAIN stringStore
        /\ resp[g].body = stringStore[t]
        /\ resp[g].body # stringStore[generateSHA256Hash(t)]

(***************************************************************************)
(* Properties of explicit filtering                                        *)
(***************************************************************************)
\* the filter names a request supplies
Supplied(query) == {n \in FilterNames : query[n] # ""}

\* a supplied parameter is well-formed: a boolean, a non-negative integer, or
\* exactly one code point
ValidParam(query, n) ==
  CASE n = "is_palindrome"      -> ParseBool(query[n]).ok
    [] n = "contains_character" -> Len(Runes(query[n])) = 1
    [] OTHER                    -> Atoi(query[n]).ok /\ Atoi(query[n]).val >= 0

ValidQuery(query) == \A n \in Supplied(query) : ValidParam(query, n)

\* the value a well-formed parameter denotes
ParsedValue(query, n) ==
  CASE n = "is_palindrome"      -> ParseBool(query[n]).val
    [] n = "contains_character" -> query[n]
    [] OTHER                    -> Atoi(query[n]).val

\* the record satisfies every supplied predicate
Satisfies(r, query) ==
  /\ "is_palindrome" \in Supplied(query) =>
       r.Properties.IsPalindrome = ParsedValue(query, "is_palindrome")
  /\ "min_length" \in Supplied(query) =>
       r.Properties.Length >= ParsedValue(query, "min_length")
  /\ "max_length" \in Supplied(query) =>
       r.Properties.Length <= ParsedValue(query, "max_length")
  /\ "word_count" \in Supplied(query) =>
       r.Properties.WordCount = ParsedValue(query, "word_count")
  /\ "contains_character" \in Supplied(query) =>
       Runes(query.contains_character)[1] \in DOMAIN r.Properties.CharacterFrequencyMap

ListAnswered(g) == req[g].op = "list" /\ pc[g] = "done"

Records(store) == {store[k] : k \in DOMAIN store}

Elements(seq) == {seq[i] : i \in DOMAIN seq}

\* C8: a list request whose supplied parameters are all well-formed is answered
\* with exactly the records of the store that satisfy every supplied predicate,
\* each once, and with their number as count; min_length=3&max_length=3 gives
\* the records of length 3, min_length=10&max_length=5 gives none, without error.
C8_ExactMatches ==
  [][\A g \in Goroutines :
       (pc[g] = "l_loop" /\ pc'[g] = "done" /\ ValidQuery(req[g].query)) =>
         LET q    == req[g].query
             data == resp'[g].data
         IN  /\ resp'[g].status = StatusOK
             /\ Elements(data) = {r \in Records(stringStore) : Satisfies(r, q)}
             /\ Cardinality(Elements(data)) = Len(data)
             /\ resp'[g].count = Len(data)
             /\ q = Query("", "3", "3", "", "") =>
                  Elements(data) = {r \in Records(stringStore) : r.Properties.Length = 3}
             /\ (q.min_length = "10" /\ q.max_length = "5") => data = <<>>]_vars

\* min_length=3&max_length=3 has returned the two records of length 3 out of a
\* store of four records
C8_Witness ==
  \E g \in Goroutines :
    /\ ListAnswered(g) /\ req[g].query = Query("", "3", "3", "", "")
    /\ resp[g].status = StatusOK /\ resp[g].count = 2
    /\ Cardinality(DOMAIN stringStore) = 4

\* C9: a list request that carries an ill-formed parameter is answered
\* InvalidFilterValue (400), whatever the store holds, never with a result.
C9_InvalidRejected ==
  \A g \in Goroutines :
    (ListAnswered(g) /\ ~ValidQuery(req[g].query)) => resp[g].status = StatusBadRequest

\* C10: the filters_applied of a successful list request with well-formed
\* parameters holds exactly the supplied filter names, each with its parsed
\* value, whatever the store holds.
C10_FiltersEchoed ==
  \A g \in Goroutines :
    (ListAnswered(g) /\ resp[g].status = StatusOK /\ ValidQuery(req[g].query)) =>
      /\ DOMAIN resp[g].filters_applied = Supplied(req[g].query)
      /\ \A n \in Supplied(req[g].query) :
           resp[g].filters_applied[n] = ParsedValue(req[g].query, n)


\* ---------------------------------------------------------------------------
\* The analyzer (SpecAnalyze)
\* ---------------------------------------------------------------------------
\* the sum of the values of a frequency map over code points of r
SumOfCounts(f, r) ==
  Cardinality({p \in (DOMAIN f) \X (1..Len(r)) : p[2] <= f[p[1]]})

\* C19: for every analyzed string the counts of the frequency map sum to the
\* length, which is the number of code points; the keys are exactly the code
\* points of the string, each in its own case, each with its number of
\* occurrences (at least 1); and uniqueCharacters is the number of keys.
C19_FrequencyComplete ==
  analysis.done =>
    LET r == analysis.input
        f == analysis.result.CharacterFrequencyMap
    IN  /\ analysis.result.Length = Len(r)
        /\ SumOfCounts(f, r) = analysis.result.Length
        /\ DOMAIN f = {r[i] : i \in DOMAIN r}
        /\ \A c \in DOMAIN f :
             f[c] >= 1 /\ f[c] = Cardinality({i \in DOMAIN r : r[i] = c})
        /\ analysis.result.UniqueCharacters = Cardinality(DOMAIN f)

\* a string with both cases of one letter, one of them twice, was analyzed
C19_Witness ==
  /\ analysis.done
  /\ analysis.input = <<"A", "a", "a">>
  /\ analysis.result.CharacterFrequencyMap["A"] = 1
  /\ analysis.result.CharacterFrequencyMap["a"] = 2
  /\ analysis.result.UniqueCharacters = 2

\* the letters and digits of r, lower-cased, in their order
Skeleton(r) ==
  SelectSeq([i \in DOMAIN r |-> ToLowerRune(r[i])],
            LAMBDA c : IsLetter(c) \/ IsNumber(c))

Reverse(q) == [i \in DOMAIN q |-> q[Len(q) + 1 - i]]

ChangeCase(c) == IF c = "a" THEN "A" ELSE IF c = "A" THEN "a" ELSE c

NonAlphanumerics == {c \in AnalyzeAlphabet : ~IsLetter(c) /\ ~IsNumber(c)}

InsertAt(r, i, c) == SubSeq(r, 1, i) \o <<c>> \o SubSeq(r, i + 1, Len(r))

RemoveAt(r, i) == SubSeq(r, 1, i - 1) \o SubSeq(r, i + 1, Len(r))

\* C20: isPalindrome is true exactly when the lower-cased letters and digits
\* of the string equal their reverse; changing the case of a letter, inserting
\* a non-alphanumeric character anywhere or removing one leaves the answer
\* unchanged; a string without letters and digits is a palindrome.
C20_PalindromeSkeleton ==
  analysis.done =>
    LET r == analysis.input
        answer == analysis.result.IsPalindrome
    IN  /\ answer <=> (Skeleton(r) = Reverse(Skeleton(r)))
        /\ \A i \in DOMAIN r :
             PalindromeOf([r EXCEPT ![i] = ChangeCase(r[i])]) = answer
        /\ \A i \in 0..Len(r) : \A c \in NonAlphanumerics :
             PalindromeOf(InsertAt(r, i, c)) = answer
        /\ \A i \in DOMAIN r :
             (~IsLetter(r[i]) /\ ~IsNumber(r[i])) => PalindromeOf(RemoveAt(r, i)) = answer
        /\ Skeleton(r) = <<>> => answer

\* a palindrome only after case folding and stripping was analyzed
C20_Witness ==
  /\ analysis.done
  /\ analysis.input = <<"A", ",", "a">>
  /\ analysis.result.IsPalindrome

\* ---------------------------------------------------------------------------
\* The translator (SpecNL)
\* ---------------------------------------------------------------------------
\* goroutine g served a natural-language request and has answered it
NLAnswered(g) == req[g].op = "nl" /\ pc[g] = "done"

NLSucceeded(g) == NLAnswered(g) /\ resp[g].status = StatusOK

ParsedFiltersOf(g) == resp[g].interpreted_query.parsed_filters

LastRune(piece) == Runes(piece)[Len(Runes(piece))]

\* the text has the piece `phrase`, directly followed by the piece `next`
Follows(text, phrase, next) ==
  \E i \in DOMAIN text : i < Len(text) /\ text[i] = phrase /\ text[i + 1] = next

Mentions(text, phrase) == \E i \in DOMAIN text : text[i] = phrase

\* the number written after `phrase` in the text
NumberAfter(text, phrase) ==
  LET i == CHOOSE j \in DOMAIN text : text[j] = phrase
  IN  DecimalValue(Runes(text[i + 1]))

\* the text has the phrase "w word" with w a word of its own
NamesWordCount(text, w) ==
  \E i \in DOMAIN text :
    /\ i < Len(text) /\ text[i] = w /\ text[i + 1] = " word"
    /\ i = 1 \/ LastRune(text[i - 1]) = " "

\* the text has a number word before " word" only as the end of a longer word
NumberWordOnlyGlued(text) ==
  /\ \E i \in DOMAIN text :
       /\ 1 < i /\ i < Len(text) /\ text[i + 1] = " word"
       /\ \E k \in DOMAIN NumberWords : text[i] = NumberWords[k]
       /\ IsLetter(LastRune(text[i - 1]))
  /\ \A k \in DOMAIN NumberWords : ~NamesWordCount(text, NumberWords[k])
  /\ ~Mentions(text, " words")

NumberDenoted(w) ==
  CASE w \in {"single", "one"} -> 1 [] w = "two" -> 2 [] w = "three" -> 3
    [] w = "four" -> 4 [] w = "five" -> 5 [] w = "six" -> 6 [] w = "seven" -> 7
    [] w = "eight" -> 8 [] w = "nine" -> 9 [] w = "ten" -> 10

\* C11: a query with the phrase "w word", w any of the eleven number words
\* (and no pair of length phrases that could conflict), is answered with a
\* successful translation whose word_count is the number w denotes.
C11_WordCountByName ==
  \A g \in Goroutines :
    NLAnswered(g) =>
      \A k \in DOMAIN NumberWords :
        (/\ NamesWordCount(req[g].text, NumberWords[k])
         /\ ~(Mentions(req[g].text, "longer than ") /\ Mentions(req[g].text, "shorter than ")))
        => /\ resp[g].status = StatusOK
           /\ "word_count" \in DOMAIN ParsedFiltersOf(g)
           /\ ParsedFiltersOf(g)["word_count"] = NumberDenoted(NumberWords[k])

\* C12: the query "strings containing the letter x", x any of a..z, is
\* answered with a successful translation to exactly {contains_character: x}.
C12_ContainingLetter ==
  \A g \in Goroutines :
    NLAnswered(g) =>
      \A x \in LowerLetters :
        req[g].text = <<"strings ", "containing the letter ", x>>
        => /\ resp[g].status = StatusOK
           /\ ParsedFiltersOf(g) = SetFilter(NoFilters, "contains_character", x)

BothLengths(f) == "min_length" \in DOMAIN f /\ "max_length" \in DOMAIN f

\* C13: a successful translation with both length bounds has min_length <=
\* max_length; when the rules have derived min_length > max_length the
\* translation fails with an error that the handler reports as 422, as for
\* "longer than 10 ... shorter than 5"; and the failures "unable to parse" and
\* "unsupported word count" are reported with another status, 400.
C13_LengthConsistency ==
  \A g \in Goroutines :
    NLAnswered(g) =>
      LET derived == AfterContains(Text(req[g].text))
          parsed  == ParseNaturalLanguageQuery(Text(req[g].text))
      IN  /\ (resp[g].status = StatusOK /\ BothLengths(ParsedFiltersOf(g)))
               => ParsedFiltersOf(g)["min_length"] <= ParsedFiltersOf(g)["max_length"]
          /\ (/\ derived.err = NoError
              /\ BothLengths(derived.filters)
              /\ derived.filters["min_length"] > derived.filters["max_length"])
               => /\ parsed.err = ErrMinOverMax
                  /\ resp[g].status = StatusUnprocessableEntity
          /\ req[g].text = LengthQuery("10", "5", "")
               => resp[g].status = StatusUnprocessableEntity
          /\ (\/ parsed.err = ErrUnparseable
              \/ \E k \in DOMAIN NumberWords : parsed.err = ErrUnsupportedWordCount(NumberWords[k]))
               => /\ resp[g].status = StatusBadRequest
                  /\ StatusBadRequest # StatusUnprocessableEntity

\* "strings longer than 10 shorter than 5 characters" was answered with 422
C13_Witness ==
  \E g \in Goroutines :
    /\ NLAnswered(g)
    /\ req[g].text = LengthQuery("10", "5", "")
    /\ resp[g].status = StatusUnprocessableEntity

C15_ValuesValid ==
  \A g \in Goroutines :
    NLAnswered(g) =>
      /\ resp[g].status = StatusOK =>
           LET f == ParsedFiltersOf(g)
           IN  /\ "min_length" \in DOMAIN f => f["min_length"] >= 0
               /\ "max_length" \in DOMAIN f => f["max_length"] >= 0
               /\ "word_count" \in DOMAIN f => f["word_count"] >= 0
               /\ "contains_character" \in DOMAIN f => Len(Runes(f["contains_character"])) = 1
      /\ Follows(req[g].text, "shorter than ", "0") => resp[g].status # StatusOK

\* the texts of NLQueries that no rule of the function recognizes
MatchesNoRule(text) == text \in {<<"tell me a joke">>, LengthQuery("", "", "")}

\* C16: a translation either fails or returns at least one filter, in the
\* function's result and in the answer; a query that no rule recognizes, such
\* as "tell me a joke", is answered 400 with the unable-to-parse error.
C16_NeverEmptySuccess ==
  \A g \in Goroutines :
    NLAnswered(g) =>
      LET parsed == ParseNaturalLanguageQuery(Text(req[g].text))
      IN  /\ parsed.err = NoError => DOMAIN parsed.filters # {}
          /\ resp[g].status = StatusOK => DOMAIN ParsedFiltersOf(g) # {}
          /\ MatchesNoRule(req[g].text)
               => /\ resp[g].status = StatusBadRequest
                  /\ resp[g].error = ErrUnparseable

\* "tell me a joke" was answered 400
C16_Witness ==
  \E g \in Goroutines :
    /\ NLAnswered(g)
    /\ req[g].text = <<"tell me a joke">>
    /\ resp[g].status = StatusBadRequest

\* C17: when a number word stands before " word" only as the end of a longer
\* word ("someone word", "often word"), the answer carries no word_count and
\* is not the unsupported-word-count error.
C17_FullWordBoundaries ==
  \A g \in Goroutines :
    (NLAnswered(g) /\ NumberWordOnlyGlued(req[g].text)) =>
      /\ ~(resp[g].status = StatusOK /\ "word_count" \in DOMAIN ParsedFiltersOf(g))
      /\ ~(/\ resp[g].status = StatusBadRequest
           /\ \E k \in DOMAIN NumberWords :
                resp[g].error = ErrUnsupportedWordCount(NumberWords[k]))

\* ---------------------------------------------------------------------------
\* The lock discipline (Spec)
\* ---------------------------------------------------------------------------
\* goroutine g is between RLock and RUnlock: the duplicate check of create,
\* the lookup of get, the range loops of the two list handlers
InReadSection(g) == pc[g] \in {"c_check", "g_lookup", "l_loop", "n_loop"}

\* goroutine g is between Lock and Unlock, its write done
InWriteSection(g) == pc[g] = "c_unlock"

\* goroutine g takes a step
Steps(g) == pc'[g] # pc[g]

C18_Exclusion ==
  \A g \in Goroutines :
    /\ InReadSection(g) => g \in mu.readers /\ mu.w # g
    /\ InWriteSection(g) =>
         /\ mu.w = g /\ mu.readers = {}
         /\ \A h \in Goroutines \ {g} : ~InReadSection(h) /\ ~InWriteSection(h)

C18_StoreSteps ==
  /\ stringStore' # stringStore =>
       /\ \A h \in Goroutines : ~InReadSection(h) /\ ~InWriteSection(h)
       /\ \E g \in Goroutines :
            /\ Steps(g) /\ pc[g] \in {"c_write", "d_delete"}
            /\ mu.w = g /\ mu.readers = {}
            /\ \A h \in Goroutines \ {g} : ~Steps(h)
  /\ \A g \in Goroutines :
       (pc[g] \in {"l_loop", "n_loop"} /\ pc'[g] = "done" /\ resp'[g].status = StatusOK)
         => \A i \in DOMAIN resp'[g].data :
              \E k \in DOMAIN stringStore : resp'[g].data[i] = stringStore[k]

\* C18: a goroutine in a reading section holds the lock for reading and one
\* in its writing section holds it alone; the store changes only in a step of
\* the one goroutine that holds the lock for writing, taken while no
\* goroutine is in a reading or writing section, so it is unchanged for the
\* whole of every list iteration; and the records a list answers with are
\* records of that store.
C18_ReaderWriterExclusion == []C18_Exclusion /\ [][C18_StoreSteps]_vars

\* two readers overlap: a list in the middle of its iteration while a get or
\* the other list handler is in its reading section too
C18_Witness ==
  \E g \in Goroutines : \E h \in Goroutines \ {g} :
    /\ pc[g] = "l_loop" /\ visited[g] # {} /\ DOMAIN stringStore \ visited[g] # {}
    /\ pc[h] \in {"g_lookup", "n_loop"}
    /\ {g, h} \subseteq mu.readers

\* ---------------------------------------------------------------------------
\* Frame conditions
\* ---------------------------------------------------------------------------
ReadOps == {"get", "list", "nl"}

\* C21: no step of a get, an explicit list or a natural-language list changes
\* the store, whatever the arguments and whether the request ends in a match,
\* in NotFound, in an invalid-parameter 400 or in a translation failure.
C21_ReadOnlyStep ==
  (\E g \in Goroutines : Steps(g) /\ req'[g].op \in ReadOps)
    => stringStore' = stringStore

C21_ReadOnly == [][C21_ReadOnlyStep]_vars

\* a get has found a record of a store that still holds all four values
C21_Witness ==
  \E g \in Goroutines :
    /\ req[g].op = "get" /\ pc[g] = "done"
    /\ resp[g].status = StatusOK
    /\ resp[g].body.Value = "aba"
    /\ Cardinality(DOMAIN stringStore) = Cardinality(FilterValues)

\* the store without the entry under key
Without(store, key) == [k \in DOMAIN store \ {key} |-> store[k]]

\* C22: the removing step of a delete addressed by t takes out the record
\* under key t when there is one, else the record under key hash(t) when
\* there is one, and answers 204; with neither key present it answers 404
\* and leaves the store as it is; it takes out at most one record and
\* leaves every other record unchanged; the other steps of a delete leave
\* the store unchanged.
C22_DeleteStep ==
  \A g \in Goroutines :
    (Steps(g) /\ req'[g].op = "delete") =>
      LET t == req'[g].arg
      IN  IF pc[g] = "d_delete"
          THEN /\ IF t \in DOMAIN stringStore
                  THEN /\ stringStore' = Without(stringStore, t)
                       /\ resp'[g].status = StatusNoContent
                  ELSE IF generateSHA256Hash(t) \in DOMAIN stringStore
                  THEN /\ stringStore' = Without(stringStore, generateSHA256Hash(t))
                       /\ resp'[g].status = StatusNoContent
                  ELSE /\ stringStore' = stringStore
                       /\ resp'[g].status = StatusNotFound
               /\ Cardinality(DOMAIN stringStore \ DOMAIN stringStore') <= 1
               /\ DOMAIN stringStore' \subseteq DOMAIN stringStore
               /\ \A k \in DOMAIN stringStore' : stringStore'[k] = stringStore[k]
          ELSE stringStore' = stringStore

C22_DeleteOneOrNone == [][C22_DeleteStep]_vars

\* a delete by the id of "aba" has removed that record and left the record
\* whose value is that id, stored under the hash of the id
C22_Witness ==
  \E g \in Goroutines :
    /\ req[g].op = "delete" /\ pc[g] = "done"
    /\ req[g].arg = H1
    /\ resp[g].status = StatusNoContent
    /\ H1 \notin DOMAIN stringStore
    /\ H2 \in DOMAIN stringStore
    /\ stringStore[H2].Value = H1

\* ---------------------------------------------------------------------------
\* Locks and termination (SpecLive)
\* ---------------------------------------------------------------------------
\* a goroutine outside its handler holds the lock neither way
LocksReleased ==
  \A g \in Goroutines :
    pc[g] \in {"idle", "done"} => g \notin mu.readers /\ mu.w # g

\* Ready(g) is the enabling condition of goroutine g's steps
ReadyIsEnabled ==
  \A g \in Goroutines : Ready(g) <=> ENABLED <<HandlerStep(g)>>_vars

\* C23: a handler that has returned, with whatever response, holds no lock;
\* and every request that has arrived is eventually answered, so no
\* interleaving ends with a goroutine blocked in its handler, also when a
\* request before it has failed (the scheduling assumed is that of SpecLive:
\* a goroutine that stays able to run takes its next step).
C23_LocksReleasedAndComplete ==
  /\ []LocksReleased
  /\ []ReadyIsEnabled
  /\ \A g \in Goroutines : (pc[g] # "idle") ~> (pc[g] = "done")

\* a get of "aba" was answered 404 and the create of "aba", whose insert waits
\* for that reader to leave, was answered 201 afterwards
C23_Witness ==
  \E g \in Goroutines : \E h \in Goroutines \ {g} :
    /\ req[g].op = "get" /\ req[g].arg = "aba" /\ pc[g] = "done"
    /\ resp[g].status = StatusNotFound
    /\ req[h].op = "create" /\ req[h].arg = "aba" /\ pc[h] = "done"
    /\ resp[h].status = StatusCreated
    /\ mu = [readers |-> {}, w |-> 0]

\* ---------------------------------------------------------------------------
\* The two filtering paths (SpecAgree)
\* ---------------------------------------------------------------------------
\* request 2 is the explicit list of the filters request 1 was answered with
SameFilters ==
  /\ NLSucceeded(1) /\ ListAnswered(2)
  /\ req[2].query = QueryOf(ParsedFiltersOf(1))

\* C24: whenever a natural-language list has been answered 200 with parsed
\* filters P and records D, the explicit list called with the same P against
\* the same store is answered 200 with the same set of records D.
C24_PathsAgree ==
  SameFilters =>
    /\ resp[2].status = StatusOK
    /\ Elements(resp[2].data) = Elements(resp[1].data)

====
